---------------------------- MODULE Spec2Model ----------------------------
(***************************************************************************)
(* Model of the PDF question-answering service (src/main.py and the        *)
(* modules it calls).  The service keeps one process-wide dictionary,      *)
(* vectorstore_cache, and serves it through asyncio handlers.  A handler   *)
(* runs without interruption between two of its `await` expressions, so    *)
(* every action below is the code between two suspension points of one     *)
(* handler:                                                                *)
(*   index_pdf          suspends once, at `await file.read()`              *)
(*   query              suspends once, at `await chain.ainvoke(...)`       *)
(*   delete_from_cache, cache_stats, clear_cache, health_check, read_root  *)
(*                      never suspend                                      *)
(* and verify_api_key runs before the handler of a protected route.        *)
(* extract_text_from_pdf (in index_pdf) and create_pdf_chain (in query)    *)
(* are plain calls: the handler keeps the event loop while they run.  The  *)
(* variable `running` holds that handler, and no other action is enabled   *)
(* until the call has returned.                                            *)
(* Strings whose characters matter (document text) are sequences of        *)
(* one-character strings; strings that are only assembled (the query sent  *)
(* to the chain) are sequences of pieces.                                  *)
(***************************************************************************)
EXTENDS Integers, Sequences, FiniteSets, Bags, TLC

(***************************************************************************)
(* Bound of the model.                                                     *)
(***************************************************************************)
MaxInFlight == 2      \* requests that may be suspended at the same time

(***************************************************************************)
(* Inputs.                                                                 *)
(***************************************************************************)
FileIds == {"doc1", "doc2"}
FileNames == {"a.pdf", "b.pdf"}
AGENT_API_KEY == "secret"
Keys == {AGENT_API_KEY, "wrong"}
ProtectedOps == {"index", "query", "delete", "stats", "clear"}

\* An upload: its byte count, whether PdfReader can read it, and what
\* page.extract_text() returns for each of its pages.
EmptyUpload == [size |-> 0, readable |-> FALSE, pages |-> <<>>]
CorruptUpload == [size |-> 1, readable |-> FALSE, pages |-> <<>>]
Pdf(pages) == [size |-> 1, readable |-> TRUE, pages |-> pages]
Uploads ==
    { EmptyUpload,
      CorruptUpload,
      Pdf(<< >>),
      Pdf(<< <<" ">> >>),
      Pdf(<< <<"x", " ">> >>),
      Pdf(<< <<>>, <<" ", "x">> >>),
      Pdf(<< <<"x">>, <<"x", " ">> >>) }

Queries == {<<"what?">>, <<"why?">>}
Answers == {<<"it is x">>}

\* chat_history, by what json.loads and Message(**msg) make of it.  A field
\* of an entry is <<>> when the key is missing and <<value>> otherwise.
Entry(r, c) == [object |-> TRUE, role |-> r, content |-> c]
Hist(k, items) == [json |-> k, items |-> items]
Histories ==
    { Hist("list", <<>>),
      Hist("list", <<Entry(<<"user">>, <<"hi">>), Entry(<<"assistant">>, <<"yo">>)>>),
      Hist("list", <<Entry(<<"user">>, <<"hi">>), Entry(<<>>, <<"yo">>)>>),
      Hist("list", <<[object |-> FALSE, role |-> <<>>, content |-> <<>>]>>),
      Hist("scalar", <<>>),
      Hist("invalid", <<>>) }

(***************************************************************************)
(* src/models/pdf_processor.py                                             *)
(***************************************************************************)
Whitespace == {" ", "\n"}

RECURSIVE lstrip(_)
lstrip(s) == IF s # <<>> /\ Head(s) \in Whitespace THEN lstrip(Tail(s)) ELSE s

RECURSIVE rstrip(_)
rstrip(s) ==
    IF s # <<>> /\ s[Len(s)] \in Whitespace THEN rstrip(SubSeq(s, 1, Len(s) - 1)) ELSE s

strip(s) == rstrip(lstrip(s))

RECURSIVE JoinPages(_)
JoinPages(pages) ==
    IF pages = <<>> THEN <<>>
    ELSE (IF Head(pages) # <<>> THEN Head(pages) \o <<"\n">> ELSE <<>>)
             \o JoinPages(Tail(pages))

extract_text_from_pdf(pages) == strip(JoinPages(pages))

(***************************************************************************)
(* State.                                                                  *)
(***************************************************************************)
VARIABLES
    vectorstore_cache,  \* file_id -> [text, file_name, text_length]
    inflight,           \* the bag of requests suspended at their await
    resp,               \* the last step: its handler and the response it sent
    calls,              \* the last step: the library and provider calls it made
    sent,               \* the last step: the input it handed to chain.ainvoke
    content,            \* the last step: the upload that file.read() returned
    running,            \* the handler inside a synchronous provider call, or <<>>
    io,                 \* the last step: what else the handler was given and left
    indexed,            \* history: ids indexed with success and not removed since
    created,            \* history: already_indexed=False responses per id since its removal
    creator             \* history: the record written by the first of them

vars ==
    <<vectorstore_cache, inflight, running, resp, calls, sent, content, io,
      indexed, created, creator>>

\* A step of a handler that sends no response has status 0.
NoResp ==
    [op |-> "none", status |-> 0, detail |-> "", file_id |-> "", file_name |-> "",
     text_length |-> -1, already_indexed |-> FALSE, count |-> -1, files |-> {},
     response |-> <<>>]

NoUpload == [size |-> -1, readable |-> FALSE, pages |-> <<>>]

\* key, query, chat_history and result are <<>> when the step was given
\* none and <<value>> otherwise; tmp_exists is whether the temporary file of
\* the step's request is on disk after the step.
NoIO == [key |-> <<>>, query |-> <<>>, chat_history |-> <<>>, result |-> <<>>,
         tmp_exists |-> FALSE]
WithKey(key) == [NoIO EXCEPT !.key = <<key>>]

NoRecord == [text |-> <<>>, file_name |-> "", text_length |-> -1]
EmptyCache == [i \in {} |-> NoRecord]

Init ==
    /\ vectorstore_cache = EmptyCache
    /\ inflight = EmptyBag
    /\ running = <<>>
    /\ resp = NoResp
    /\ calls = {}
    /\ sent = <<>>
    /\ content = NoUpload
    /\ io = NoIO
    /\ indexed = {}
    /\ created = [i \in FileIds |-> 0]
    /\ creator = [i \in FileIds |-> NoRecord]

(***************************************************************************)
(* Responses and exceptions.                                               *)
(***************************************************************************)
\* raise HTTPException(status_code=..., detail=...)
HTTPException(status, detail) == [http |-> TRUE, status |-> status, detail |-> detail]
\* any other exception
Exception(detail) == [http |-> FALSE, status |-> 0, detail |-> detail]

ErrorResp(op, file_id, e) ==
    [NoResp EXCEPT !.op = op, !.file_id = file_id, !.status = e.status, !.detail = e.detail]

\* The handler reached its await and sent nothing yet.
Suspended(op, file_id) ==
    [NoResp EXCEPT !.op = op, !.file_id = file_id, !.detail = "suspended"]

\* The handler entered a synchronous call of a provider: nothing is sent,
\* and the event loop runs no other handler until the call returns.
Blocking(op, file_id) ==
    [NoResp EXCEPT !.op = op, !.file_id = file_id, !.detail = "blocking"]

\* The event loop is free to run a handler.
Idle == running = <<>>

\* asyncio cancels the task at its await: CancelledError is no Exception, no
\* handler catches it and no response is sent.
Cancelled(op, file_id) ==
    [NoResp EXCEPT !.op = op, !.file_id = file_id, !.detail = "cancelled"]

(***************************************************************************)
(* verify_api_key, the dependency of every protected route.                *)
(***************************************************************************)
verify_api_key_any(x_api_key) == TRUE

verify_api_key(x_api_key) == x_api_key = AGENT_API_KEY

Unauthorized(op, key) ==
    /\ Idle
    /\ UNCHANGED running
    /\ ~verify_api_key(key)
    /\ resp' = ErrorResp(op, "", HTTPException(401, "Invalid API key"))
    /\ calls' = {}
    /\ sent' = <<>>
    /\ content' = NoUpload
    /\ io' = WithKey(key)
    /\ UNCHANGED <<vectorstore_cache, inflight, indexed, created, creator>>

(***************************************************************************)
(* The cache as a dictionary.                                              *)
(***************************************************************************)
PutAlone(c, k, v) == [i \in {k} |-> v]

Put(c, k, v) == [i \in DOMAIN c \cup {k} |-> IF i = k THEN v ELSE c[i]]
Del(c, k) == [i \in DOMAIN c \ {k} |-> c[i]]

NewRecordNoLength(text, file_name) ==
    [text |-> text, file_name |-> file_name, text_length |-> 0]

NewRecord(text, file_name) ==
    [text |-> text, file_name |-> file_name, text_length |-> Len(text)]

(***************************************************************************)
(* index_pdf                                                               *)
(***************************************************************************)
AlreadyIndexedNever(c, file_id) == FALSE

\* `if file_id in vectorstore_cache`
AlreadyIndexed(c, file_id) == file_id \in DOMAIN c

\* `except Exception as e: raise HTTPException(status_code=500, detail=str(e))`
\* HTTPException is an Exception, so the 400s raised inside the try are
\* caught here as well.  detail keeps the cause of e.
index_pdf_except(e) == HTTPException(500, e.detail)

IndexFailed(c, file_id, e, called) ==
    [cache |-> c, resp |-> ErrorResp("index", file_id, index_pdf_except(e)), calls |-> called,
     tmp_exists |-> FALSE]

IndexReturned(c, file_id, file_name, text_length, already, called) ==
    [cache |-> c,
     resp |-> [NoResp EXCEPT !.op = "index", !.status = 200, !.file_id = file_id,
                             !.file_name = file_name, !.text_length = text_length,
                             !.already_indexed = already],
     calls |-> called, tmp_exists |-> FALSE]

\* index_pdf with the record stored before the extracted text is validated.
index_pdf_store_first(c, file_id, filename, upload, write_ok) ==
    IF upload.size = 0
    THEN IndexFailed(c, file_id, HTTPException(400, "Empty file"), {})
    ELSE IF AlreadyIndexed(c, file_id)
    THEN IndexReturned(c, file_id, filename, -1, TRUE, {})
    ELSE IF ~write_ok
    THEN [IndexFailed(c, file_id, Exception("OSError"), {}) EXCEPT !.tmp_exists = TRUE]
    ELSE IF ~upload.readable
    THEN IndexFailed(c, file_id, Exception("PdfReadError"), {"extract_text_from_pdf"})
    ELSE LET text == extract_text_from_pdf(upload.pages)
             stored == Put(c, file_id, NewRecord(text, filename))
         IN  IF text = <<>>
             THEN IndexFailed(stored, file_id,
                              HTTPException(400, "Could not extract text from PDF"),
                              {"extract_text_from_pdf"})
             ELSE IndexReturned(stored, file_id, filename, Len(text), FALSE,
                                {"extract_text_from_pdf"})

\* index_pdf without the rejection of an empty extracted text.
index_pdf_no_text_check(c, file_id, filename, upload, write_ok) ==
    IF upload.size = 0
    THEN IndexFailed(c, file_id, HTTPException(400, "Empty file"), {})
    ELSE IF AlreadyIndexed(c, file_id)
    THEN IndexReturned(c, file_id, filename, -1, TRUE, {})
    ELSE IF ~write_ok
    THEN [IndexFailed(c, file_id, Exception("OSError"), {}) EXCEPT !.tmp_exists = TRUE]
    ELSE IF ~upload.readable
    THEN IndexFailed(c, file_id, Exception("PdfReadError"), {"extract_text_from_pdf"})
    ELSE LET text == extract_text_from_pdf(upload.pages)
         IN  IndexReturned(Put(c, file_id, NewRecord(text, filename)),
                           file_id, filename, Len(text), FALSE, {"extract_text_from_pdf"})

\* The handler from the return of `await file.read()` to its response.
\* write_ok is whether tmp.write(content) succeeds: when it raises, the file
\* made by NamedTemporaryFile(delete=False) is on disk and tmp_path is still
\* None, so the `finally` does not unlink it.
index_pdf(c, file_id, filename, upload, write_ok) ==
    IF upload.size = 0
    THEN IndexFailed(c, file_id, HTTPException(400, "Empty file"), {})
    ELSE IF AlreadyIndexed(c, file_id)
    THEN \* the response carries the upload's filename and no text_length
         IndexReturned(c, file_id, filename, -1, TRUE, {})
    ELSE IF ~write_ok
    THEN [IndexFailed(c, file_id, Exception("OSError"), {}) EXCEPT !.tmp_exists = TRUE]
    ELSE IF ~upload.readable
    THEN IndexFailed(c, file_id, Exception("PdfReadError"), {"extract_text_from_pdf"})
    ELSE LET text == extract_text_from_pdf(upload.pages)
         IN  IF text = <<>>
             THEN IndexFailed(c, file_id,
                              HTTPException(400, "Could not extract text from PDF"),
                              {"extract_text_from_pdf"})
             ELSE IndexReturned(Put(c, file_id, NewRecord(text, filename)),
                                file_id, filename, Len(text), FALSE,
                                {"extract_text_from_pdf"})

IndexRequest(file_id, filename) ==
    [kind |-> "index", file_id |-> file_id, file_name |-> filename, chain |-> <<>>]

\* The request arrives with a valid key and the handler suspends at
\* `await file.read()`.
IndexStart(file_id, filename, key) ==
    /\ Idle
    /\ UNCHANGED running
    /\ verify_api_key(key)
    /\ BagCardinality(inflight) < MaxInFlight
    /\ inflight' = inflight (+) SetToBag({IndexRequest(file_id, filename)})
    /\ resp' = Suspended("index", file_id)
    /\ calls' = {}
    /\ sent' = <<>>
    /\ content' = NoUpload
    /\ io' = WithKey(key)
    /\ UNCHANGED <<vectorstore_cache, indexed, created, creator>>

\* What index_pdf leaves behind when it responds.
IndexOutcome(r, upload, o) ==
    LET id == r.file_id
        stored == o.resp.status = 200 /\ ~o.resp.already_indexed
    IN  /\ vectorstore_cache' = o.cache
        /\ resp' = o.resp
        /\ calls' = o.calls
        /\ indexed' = IF o.resp.status = 200 THEN indexed \cup {id} ELSE indexed
        /\ created' = IF stored THEN [created EXCEPT ![id] = @ + 1] ELSE created
        /\ creator' = IF stored /\ created[id] = 0
                      THEN [creator EXCEPT ![id] =
                               NewRecord(extract_text_from_pdf(upload.pages), r.file_name)]
                      ELSE creator
        /\ io' = [NoIO EXCEPT !.tmp_exists = o.tmp_exists]
        /\ content' = upload
        /\ sent' = <<>>

\* The handler of r inside extract_text_from_pdf(tmp_path), a plain call.
Extracting(r, upload) ==
    [kind |-> "index", file_id |-> r.file_id, file_name |-> r.file_name,
     upload |-> upload, query |-> <<>>, chat_history |-> <<>>]

\* file.read() returns the upload and the handler runs on: to its response
\* when it answers before the extraction, and into the extraction otherwise.
IndexResume(r, upload, write_ok) ==
    /\ Idle
    /\ BagIn(r, inflight)
    /\ r.kind = "index"
    /\ inflight' = inflight (-) SetToBag({r})
    /\ LET o == index_pdf(vectorstore_cache, r.file_id, r.file_name, upload, write_ok)
       IN  IF "extract_text_from_pdf" \in o.calls
           THEN /\ running' = <<Extracting(r, upload)>>
                /\ resp' = Blocking("index", r.file_id)
                /\ calls' = {}
                /\ sent' = <<>>
                /\ content' = NoUpload
                /\ io' = [NoIO EXCEPT !.tmp_exists = TRUE]
                /\ UNCHANGED <<vectorstore_cache, indexed, created, creator>>
           ELSE /\ running' = <<>>
                /\ IndexOutcome(r, upload, o)

\* extract_text_from_pdf returns or raises and the handler runs to its
\* response; no other handler ran since it was called.
IndexExtracted ==
    /\ running # <<>>
    /\ running[1].kind = "index"
    /\ LET m == running[1]
           r == IndexRequest(m.file_id, m.file_name)
       IN  IndexOutcome(r, m.upload,
               index_pdf(vectorstore_cache, m.file_id, m.file_name, m.upload, TRUE))
    /\ running' = <<>>
    /\ UNCHANGED inflight

\* The client disconnects while the handler is suspended.
Abort(r) ==
    /\ Idle
    /\ UNCHANGED running
    /\ BagIn(r, inflight)
    /\ inflight' = inflight (-) SetToBag({r})
    /\ resp' = Cancelled(r.kind, r.file_id)
    /\ calls' = {}
    /\ sent' = <<>>
    /\ content' = NoUpload
    /\ io' = NoIO
    /\ UNCHANGED <<vectorstore_cache, indexed, created, creator>>

(***************************************************************************)
(* query                                                                   *)
(***************************************************************************)
RoleLabelUser(role) == "User"

RoleLabel(role) == IF role = "user" THEN "User" ELSE "Assistant"

\* One line per message, joined by newlines.
RECURSIVE format_history_for_context(_)
format_history_for_context(messages) ==
    IF messages = <<>> THEN <<>>
    ELSE LET msg == Head(messages)
             line == <<RoleLabel(msg.role), ": ", msg.content>>
         IN  IF Tail(messages) = <<>> THEN line
             ELSE line \o <<"\n">> \o format_history_for_context(Tail(messages))

\* messages = [Message(**msg) for msg in history_data]
\* pydantic's ValidationError is a ValueError; unpacking what is no object
\* raises TypeError.
RECURSIVE ParseItems(_)
ParseItems(items) ==
    IF items = <<>> THEN [ok |-> TRUE, exc |-> Exception(""), messages |-> <<>>]
    ELSE LET it == Head(items)
         IN  IF ~it.object
             THEN [ok |-> FALSE, exc |-> Exception("TypeError"), messages |-> <<>>]
             ELSE IF it.role = <<>> \/ it.content = <<>>
             THEN [ok |-> FALSE, exc |-> Exception("ValueError"), messages |-> <<>>]
             ELSE LET rest == ParseItems(Tail(items))
                  IN  IF rest.ok
                      THEN [rest EXCEPT !.messages =
                                <<[role |-> it.role[1], content |-> it.content[1]]>> \o @]
                      ELSE rest

\* history_data = json.loads(chat_history), then the messages.
\* JSONDecodeError is a ValueError; iterating a scalar raises TypeError.
ParseHistory(chat_history) ==
    IF chat_history.json = "invalid"
    THEN [ok |-> FALSE, exc |-> Exception("ValueError"), messages |-> <<>>]
    ELSE IF chat_history.json = "scalar"
    THEN [ok |-> FALSE, exc |-> Exception("TypeError"), messages |-> <<>>]
    ELSE ParseItems(chat_history.items)

\* `except (json.JSONDecodeError, ValueError) as e: raise HTTPException(400, ...)`
history_except(e) ==
    IF e.detail = "ValueError" THEN HTTPException(400, "Invalid chat_history") ELSE e

FullQuery(messages, q) ==
    IF messages # <<>>
    THEN <<"Previous conversation:\n">> \o format_history_for_context(messages)
             \o <<"\n\nCurrent question: ">> \o q
    ELSE q

query_except_all_500(e) == HTTPException(500, e.detail)

\* `except HTTPException: raise` then
\* `except Exception as e: raise HTTPException(status_code=500, detail=str(e))`
query_except(e) == IF e.http THEN e ELSE HTTPException(500, e.detail)

create_faiss_index_empty(text) == <<"faiss">>

\* create_faiss_index chunks and embeds the text it is given, on every call;
\* the index is named by the text it holds.
create_faiss_index(text) == <<"faiss">> \o text

QueryFailed(file_id, e, called) ==
    [suspends |-> FALSE, resp |-> ErrorResp("query", file_id, query_except(e)),
     calls |-> called, chain |-> <<>>, input |-> <<>>]

\* The handler up to `await chain.ainvoke({"input": full_query})`;
\* embed_ok is whether the embedding provider answers create_faiss_index.
query_start(c, file_id, q, chat_history, embed_ok) ==
    IF file_id \notin DOMAIN c
    THEN QueryFailed(file_id, HTTPException(404, "File not indexed. Call /index_pdf first."), {})
    ELSE LET h == ParseHistory(chat_history)
         IN  IF ~h.ok
             THEN QueryFailed(file_id, history_except(h.exc), {})
             ELSE IF ~embed_ok
             THEN QueryFailed(file_id, Exception("EmbeddingError"), {"create_faiss_index"})
             ELSE [suspends |-> TRUE, resp |-> Suspended("query", file_id),
                   calls |-> {"create_faiss_index"},
                   chain |-> create_faiss_index(c[file_id].text),
                   input |-> FullQuery(h.messages, q)]

QueryRequest(file_id, chain) ==
    [kind |-> "query", file_id |-> file_id, file_name |-> "", chain |-> chain]

\* The handler inside create_pdf_chain(cached["text"]), a plain call.
Embedding(file_id, q, chat_history) ==
    [kind |-> "query", file_id |-> file_id, file_name |-> "",
     upload |-> NoUpload, query |-> q, chat_history |-> chat_history]

\* The request arrives with a valid key and the handler runs on: to its
\* response when it fails before create_pdf_chain, and into it otherwise.
QueryStart(file_id, q, chat_history, key) ==
    /\ Idle
    /\ verify_api_key(key)
    /\ LET o == query_start(vectorstore_cache, file_id, q, chat_history, TRUE)
       IN  IF "create_faiss_index" \in o.calls
           THEN /\ BagCardinality(inflight) < MaxInFlight
                /\ running' = <<Embedding(file_id, q, chat_history)>>
                /\ resp' = Blocking("query", file_id)
                /\ calls' = {}
                /\ sent' = <<>>
                /\ io' = WithKey(key)
           ELSE /\ running' = <<>>
                /\ resp' = o.resp
                /\ calls' = o.calls
                /\ sent' = o.input
                /\ io' = IF file_id \in DOMAIN vectorstore_cache
                        THEN [WithKey(key) EXCEPT !.query = <<q>>,
                                                  !.chat_history = <<chat_history>>]
                        ELSE WithKey(key)
    /\ content' = NoUpload
    /\ UNCHANGED <<vectorstore_cache, inflight, indexed, created, creator>>

\* create_pdf_chain returns or raises; the handler assembles the query and
\* suspends at `await chain.ainvoke(...)`, or fails.
QueryEmbedded(embed_ok) ==
    /\ running # <<>>
    /\ running[1].kind = "query"
    /\ LET m == running[1]
           o == query_start(vectorstore_cache, m.file_id, m.query, m.chat_history, embed_ok)
       IN  /\ resp' = o.resp
           /\ calls' = o.calls
           /\ sent' = o.input
           /\ io' = [NoIO EXCEPT !.query = <<m.query>>,
                                 !.chat_history = <<m.chat_history>>]
           /\ inflight' = IF o.suspends
                          THEN inflight (+) SetToBag({QueryRequest(m.file_id, o.chain)})
                          ELSE inflight
    /\ running' = <<>>
    /\ content' = NoUpload
    /\ UNCHANGED <<vectorstore_cache, indexed, created, creator>>

\* chain.ainvoke returns (with or without an "answer") or raises.
AinvokeResults ==
    {[raised |-> FALSE, has_answer |-> TRUE, answer |-> a] : a \in Answers}
        \cup {[raised |-> FALSE, has_answer |-> FALSE, answer |-> <<>>],
              [raised |-> TRUE, has_answer |-> FALSE, answer |-> <<>>]}

query_finish_requires_answer(file_id, result) ==
    IF result.raised \/ ~result.has_answer
    THEN ErrorResp("query", file_id, query_except(Exception("KeyError")))
    ELSE [NoResp EXCEPT !.op = "query", !.status = 200, !.file_id = file_id,
                        !.response = result.answer]

\* result.get("answer", "No answer found.")
query_finish(file_id, result) ==
    IF result.raised
    THEN ErrorResp("query", file_id, query_except(Exception("ProviderError")))
    ELSE [NoResp EXCEPT !.op = "query", !.status = 200, !.file_id = file_id,
                        !.response = IF result.has_answer THEN result.answer
                                     ELSE <<"No answer found.">>]

QueryResume(r, result) ==
    /\ Idle
    /\ UNCHANGED running
    /\ BagIn(r, inflight)
    /\ r.kind = "query"
    /\ resp' = query_finish(r.file_id, result)
    /\ calls' = {"retrieve", "generate"}
    /\ sent' = <<>>
    /\ content' = NoUpload
    /\ io' = [NoIO EXCEPT !.result = <<result>>]
    /\ inflight' = inflight (-) SetToBag({r})
    /\ UNCHANGED <<vectorstore_cache, indexed, created, creator>>

(***************************************************************************)
(* delete_from_cache, cache_stats, clear_cache, health_check, read_root    *)
(***************************************************************************)
delete_keeps_entry(c, file_id) ==
    IF file_id \in DOMAIN c
    THEN [cache |-> c, found |-> TRUE, file_name |-> c[file_id].file_name]
    ELSE [cache |-> c, found |-> FALSE, file_name |-> ""]

delete_drops_all(c, file_id) ==
    IF file_id \in DOMAIN c
    THEN [cache |-> EmptyCache, found |-> TRUE, file_name |-> c[file_id].file_name]
    ELSE [cache |-> c, found |-> FALSE, file_name |-> ""]

delete_from_cache(c, file_id) ==
    IF file_id \in DOMAIN c
    THEN [cache |-> Del(c, file_id), found |-> TRUE, file_name |-> c[file_id].file_name]
    ELSE [cache |-> c, found |-> FALSE, file_name |-> ""]

Delete(file_id, key) ==
    /\ Idle
    /\ UNCHANGED running
    /\ verify_api_key(key)
    /\ calls' = {}
    /\ sent' = <<>>
    /\ content' = NoUpload
    /\ io' = WithKey(key)
    /\ UNCHANGED inflight
    /\ LET d == delete_from_cache(vectorstore_cache, file_id)
       IN  /\ vectorstore_cache' = d.cache
           /\ IF d.found
              THEN /\ resp' = [NoResp EXCEPT !.op = "delete", !.status = 200,
                                             !.file_id = file_id, !.file_name = d.file_name]
                   /\ indexed' = indexed \ {file_id}
                   /\ created' = [created EXCEPT ![file_id] = 0]
                   /\ creator' = [creator EXCEPT ![file_id] = NoRecord]
              ELSE /\ resp' = ErrorResp("delete", file_id,
                                        HTTPException(404, "File not found in cache"))
                   /\ UNCHANGED <<indexed, created, creator>>

StatsFiles(c) ==
    {[file_id |-> i, name |-> c[i].file_name, text_length |-> c[i].text_length] : i \in DOMAIN c}

CacheStats(key) ==
    /\ Idle
    /\ UNCHANGED running
    /\ verify_api_key(key)
    /\ resp' = [NoResp EXCEPT !.op = "stats", !.status = 200,
                              !.count = Cardinality(DOMAIN vectorstore_cache),
                              !.files = StatsFiles(vectorstore_cache)]
    /\ calls' = {}
    /\ sent' = <<>>
    /\ content' = NoUpload
    /\ io' = WithKey(key)
    /\ UNCHANGED <<vectorstore_cache, inflight, indexed, created, creator>>

clear_counts_after(c) == [cache |-> EmptyCache, count |-> 0]

\* count = len(vectorstore_cache); vectorstore_cache.clear()
clear_cache(c) == [cache |-> EmptyCache, count |-> Cardinality(DOMAIN c)]

Clear(key) ==
    /\ Idle
    /\ UNCHANGED running
    /\ verify_api_key(key)
    /\ LET cl == clear_cache(vectorstore_cache)
       IN  /\ vectorstore_cache' = cl.cache
           /\ resp' = [NoResp EXCEPT !.op = "clear", !.status = 200, !.count = cl.count]
    /\ calls' = {}
    /\ sent' = <<>>
    /\ content' = NoUpload
    /\ io' = WithKey(key)
    /\ indexed' = {}
    /\ created' = [i \in FileIds |-> 0]
    /\ creator' = [i \in FileIds |-> NoRecord]
    /\ UNCHANGED inflight

HealthCheck ==
    /\ Idle
    /\ UNCHANGED running
    /\ resp' = [NoResp EXCEPT !.op = "health", !.status = 200, !.detail = "healthy",
                              !.count = Cardinality(DOMAIN vectorstore_cache)]
    /\ calls' = {}
    /\ sent' = <<>>
    /\ content' = NoUpload
    /\ io' = NoIO
    /\ UNCHANGED <<vectorstore_cache, inflight, indexed, created, creator>>

ReadRoot ==
    /\ Idle
    /\ UNCHANGED running
    /\ resp' = [NoResp EXCEPT !.op = "root", !.status = 200, !.detail = "PDF Agent API"]
    /\ calls' = {}
    /\ sent' = <<>>
    /\ content' = NoUpload
    /\ io' = NoIO
    /\ UNCHANGED <<vectorstore_cache, inflight, indexed, created, creator>>

(***************************************************************************)
(* The service.                                                            *)
(***************************************************************************)
Next ==
    \/ \E op \in ProtectedOps, k \in Keys : Unauthorized(op, k)
    \/ \E i \in FileIds, n \in FileNames, k \in Keys : IndexStart(i, n, k)
    \/ \E r \in BagToSet(inflight), u \in Uploads, w \in BOOLEAN : IndexResume(r, u, w)
    \/ IndexExtracted
    \/ \E i \in FileIds, q \in Queries, h \in Histories, k \in Keys :
          QueryStart(i, q, h, k)
    \/ \E e \in BOOLEAN : QueryEmbedded(e)
    \/ \E r \in BagToSet(inflight), a \in AinvokeResults : QueryResume(r, a)
    \/ \E r \in BagToSet(inflight) : Abort(r)
    \/ \E i \in FileIds, k \in Keys : Delete(i, k)
    \/ \E k \in Keys : CacheStats(k)
    \/ \E k \in Keys : Clear(k)
    \/ HealthCheck
    \/ ReadRoot

Spec == Init /\ [][Next]_vars

(***************************************************************************)
(* Vocabulary of the properties.  A primed observation names the step      *)
(* that was just taken.                                                    *)
(***************************************************************************)
Present(id) == id \in DOMAIN vectorstore_cache

\* The last step was index_pdf running from file.read() to its response.
IndexResponded == resp.op = "index" /\ resp.status \notin {0, 401}
Extracted == "extract_text_from_pdf" \in calls
ExtractsText(u) == u.readable /\ extract_text_from_pdf(u.pages) # <<>>

\* The last step was a handler answering without having suspended.
Answered(op) == resp.op = op /\ resp.status \notin {0, 401}

SameExcept(c1, c2, id) ==
    /\ DOMAIN c1 \ {id} = DOMAIN c2 \ {id}
    /\ \A j \in DOMAIN c1 \ {id} : c1[j] = c2[j]

(***************************************************************************)
(* C1 (as amended).  The index request that finds its id absent and        *)
(* extracts a non-empty text answers already_indexed=False and stores a    *)
(* record.  Every index request that finds its id present and carries a    *)
(* non-empty upload, whatever its text and its display name, answers       *)
(* already_indexed=True; and every index request that finds its id present *)
(* leaves the stored text, file_name and text_length as they were.         *)
(***************************************************************************)
C1_IdempotentIndexing ==
    [][ IndexResponded' =>
          LET id == resp'.file_id
          IN  /\ (~Present(id) /\ Extracted' /\ ExtractsText(content'))
                    => /\ resp'.status = 200
                       /\ ~resp'.already_indexed
                       /\ id \in DOMAIN vectorstore_cache'
              /\ (Present(id) /\ content'.size > 0)
                    => /\ resp'.status = 200
                       /\ resp'.already_indexed
              /\ Present(id)
                    => /\ id \in DOMAIN vectorstore_cache'
                       /\ vectorstore_cache'[id] = vectorstore_cache[id] ]_vars

\* C1 as written: every later index request answers already_indexed=True.
C1_AsWritten ==
    [][ IndexResponded' =>
          LET id == resp'.file_id
          IN  /\ (~Present(id) /\ Extracted' /\ ExtractsText(content'))
                    => /\ resp'.status = 200
                       /\ ~resp'.already_indexed
                       /\ id \in DOMAIN vectorstore_cache'
              /\ Present(id)
                    => /\ resp'.status = 200
                       /\ resp'.already_indexed
                       /\ id \in DOMAIN vectorstore_cache'
                       /\ vectorstore_cache'[id] = vectorstore_cache[id] ]_vars

\* A re-upload with another text and another name was answered
\* already_indexed=True and the record kept its own.
C1_Witness ==
    /\ IndexResponded
    /\ resp.already_indexed
    /\ Present(resp.file_id)
    /\ ExtractsText(content)
    /\ extract_text_from_pdf(content.pages) # vectorstore_cache[resp.file_id].text
    /\ resp.file_name # vectorstore_cache[resp.file_id].file_name

(***************************************************************************)
(* C2.  However index requests for one id interleave at their await, at    *)
(* most one of them answers already_indexed=False between two removals of  *)
(* the id, and the record in the cache is complete and is the one that     *)
(* request wrote.                                                          *)
(***************************************************************************)
Complete(rec) ==
    /\ rec.text # <<>>
    /\ rec.text_length = Len(rec.text)
    /\ rec.file_name \in FileNames

C2_OneCreatorPerId ==
    \A id \in FileIds :
        /\ created[id] <= 1
        /\ Present(id) => /\ created[id] = 1
                          /\ vectorstore_cache[id] = creator[id]
                          /\ Complete(vectorstore_cache[id])

\* One request has just created the record while another index request for
\* the same id, with another display name, is still suspended.
C2_Witness ==
    /\ IndexResponded
    /\ resp.status = 200
    /\ ~resp.already_indexed
    /\ \E r \in BagToSet(inflight) :
          r.kind = "index" /\ r.file_id = resp.file_id /\ r.file_name # resp.file_name

(***************************************************************************)
(* C3.  An index request that fails (empty upload, unreadable PDF, empty   *)
(* extracted text) or is cancelled at its await leaves the cache as it     *)
(* was: no entry added, removed or changed, the entry count the same.      *)
(***************************************************************************)
IndexFailedOrCancelled ==
    /\ resp.op = "index"
    /\ \/ resp.status >= 400
       \/ resp.detail = "cancelled"

C3_FailedIndexLeavesCache ==
    [][ IndexFailedOrCancelled' =>
          /\ vectorstore_cache' = vectorstore_cache
          /\ Cardinality(DOMAIN vectorstore_cache') = Cardinality(DOMAIN vectorstore_cache)
      ]_vars

\* An upload whose pages hold only blanks was rejected while the cache held
\* another document.
C3_Witness ==
    /\ IndexFailedOrCancelled
    /\ Extracted
    /\ content.readable
    /\ content.pages # <<>>
    /\ ~Present(resp.file_id)
    /\ DOMAIN vectorstore_cache # {}

(***************************************************************************)
(* C4.  An id is a key of the cache exactly when an index request for it   *)
(* has succeeded and neither a remove of it nor a clear has happened       *)
(* since the last such success.                                            *)
(***************************************************************************)
C4_PresentIffIndexed == DOMAIN vectorstore_cache = indexed

\* One id was removed and the other is still indexed.
C4_Witness ==
    /\ Answered("delete")
    /\ resp.status = 200
    /\ indexed # {}
    /\ resp.file_id \notin indexed

(***************************************************************************)
(* C5.  The index of a document is built when the document is indexed and  *)
(* is held in its cache record, so it is built once per stored record and  *)
(* a query retrieves from it: no step of a query chunks and embeds the     *)
(* document text to build an index.                                        *)
(***************************************************************************)
C5_QueryBuildsNoIndex == resp.op = "query" => "create_faiss_index" \notin calls

(***************************************************************************)
(* C6.  remove(id) on a present id answers 200 with the file_name stored   *)
(* for it and deletes that entry and no other; remove(id) on an absent id  *)
(* answers 404 and leaves the cache as it was.  A query or remove that     *)
(* finds the id absent answers 404, and an absent id becomes present only  *)
(* by an index request for it that answers already_indexed=False.          *)
(***************************************************************************)
C6_Remove ==
    [][ /\ Answered("delete")' =>
              LET id == resp'.file_id
              IN  IF Present(id)
                  THEN /\ resp'.status = 200
                       /\ resp'.file_name = vectorstore_cache[id].file_name
                       /\ id \notin DOMAIN vectorstore_cache'
                       /\ SameExcept(vectorstore_cache', vectorstore_cache, id)
                  ELSE /\ resp'.status = 404
                       /\ vectorstore_cache' = vectorstore_cache
        /\ (Answered("query")' /\ inflight' = inflight /\ ~Present(resp'.file_id))
              => resp'.status = 404
        /\ \A id \in FileIds :
              (~Present(id) /\ id \in DOMAIN vectorstore_cache')
                 => /\ IndexResponded'
                    /\ resp'.file_id = id
                    /\ resp'.status = 200
                    /\ ~resp'.already_indexed
      ]_vars

\* An entry was removed, with its name returned, while another one stayed.
C6_Witness ==
    /\ Answered("delete")
    /\ resp.status = 200
    /\ resp.file_name \in FileNames
    /\ ~Present(resp.file_id)
    /\ DOMAIN vectorstore_cache # {}

(***************************************************************************)
(* C7.  clear answers 200 with the number of entries the cache held when   *)
(* it ran, also when that is 0, and leaves the cache empty; stats reports  *)
(* the number of entries of the cache, so 0 right after a clear; and on    *)
(* the empty cache every query and every remove answers 404.               *)
(***************************************************************************)
C7_Clear ==
    [][ /\ Answered("clear")' =>
              /\ resp'.status = 200
              /\ resp'.count = Cardinality(DOMAIN vectorstore_cache)
              /\ DOMAIN vectorstore_cache' = {}
        /\ Answered("stats")' =>
              /\ resp'.status = 200
              /\ resp'.count = Cardinality(DOMAIN vectorstore_cache)
              /\ vectorstore_cache' = vectorstore_cache
        /\ (DOMAIN vectorstore_cache = {} /\ inflight' = inflight
                /\ (Answered("query")' \/ Answered("delete")'))
              => resp'.status = 404
      ]_vars

\* A clear of a cache of two entries reported 2.
C7_Witness ==
    /\ Answered("clear")
    /\ resp.count = 2
    /\ DOMAIN vectorstore_cache = {}

(***************************************************************************)
(* C8.  A query for an id that is not in the cache answers 404, whatever   *)
(* its query string and history are: it never reaches its await, builds    *)
(* no index, calls no provider and leaves the cache as it was.             *)
(***************************************************************************)
C8_QueryAbsentId ==
    [][ /\ (Answered("query")' /\ inflight' = inflight /\ ~Present(resp'.file_id))
              => /\ resp'.status = 404
                 /\ calls' = {}
                 /\ sent' = <<>>
                 /\ vectorstore_cache' = vectorstore_cache
        /\ (resp'.op = "query" /\ resp'.detail = "suspended")
              => Present(resp'.file_id)
      ]_vars

\* A query for an absent id was refused while another id was indexed.
C8_Witness ==
    /\ Answered("query")
    /\ resp.status = 404
    /\ ~Present(resp.file_id)
    /\ DOMAIN vectorstore_cache # {}

(***************************************************************************)
(* C9.  Every record in the cache has a non-empty text, and an index       *)
(* request whose extraction yields the empty string is never answered as   *)
(* having stored a record.                                                 *)
(***************************************************************************)
ExtractsNothing(u) == u.readable /\ extract_text_from_pdf(u.pages) = <<>>

C9_StoredTextNonEmpty ==
    /\ \A id \in DOMAIN vectorstore_cache : vectorstore_cache[id].text # <<>>
    /\ (IndexResponded /\ ExtractsNothing(content))
          => (resp.status # 200 \/ resp.already_indexed)

\* A readable upload whose page holds only a blank was refused.
C9_Witness ==
    /\ IndexResponded
    /\ Extracted
    /\ ExtractsNothing(content)
    /\ content.pages # <<>>
    /\ resp.status # 200
    /\ ~Present(resp.file_id)

(***************************************************************************)
(* C10.  An index request whose upload is empty, or whose extracted text   *)
(* is empty, is answered with the input error 400.                         *)
(***************************************************************************)
C10_EmptyInputIs400 ==
    /\ (IndexResponded /\ content.size = 0) => resp.status = 400
    /\ (IndexResponded /\ Extracted /\ ExtractsNothing(content)) => resp.status = 400

(***************************************************************************)
(* C11.  A query for an indexed id whose history is malformed (it does     *)
(* not parse, or one of its entries lacks role or content) is answered     *)
(* with the input error 400, before any index is built and before any      *)
(* provider is called.                                                     *)
(***************************************************************************)
LacksField(entry) == ~entry.object \/ entry.role = <<>> \/ entry.content = <<>>

Malformed(h) ==
    \/ h.json = "invalid"
    \/ h.json = "list" /\ \E k \in 1..Len(h.items) : LacksField(h.items[k])

\* The last step was query reading the history h.
QueryRead(h) == resp.op = "query" /\ io.chat_history = <<h>>

C11_MalformedHistoryIs400 ==
    \A h \in Histories :
        (QueryRead(h) /\ Malformed(h)) => (resp.status = 400 /\ calls = {})

(***************************************************************************)
(* C12.  An index request for an id already in the cache is answered with  *)
(* the stored record: the file_name and the text_length of the response    *)
(* are those stored by the request that indexed the id.                    *)
(***************************************************************************)
C12_ReturnsStoredRecord ==
    (IndexResponded /\ resp.already_indexed)
        => /\ Present(resp.file_id)
           /\ resp.file_name = vectorstore_cache[resp.file_id].file_name
           /\ resp.text_length = vectorstore_cache[resp.file_id].text_length

(***************************************************************************)
(* C13.  The string a query sends to retrieval and generation is the query *)
(* verbatim when the history is empty.  With a non-empty history it is the *)
(* heading "Previous conversation:\n", the transcript, the separator       *)
(* "\n\nCurrent question: " and then the query; the transcript has one     *)
(* line per message, in input order, joined by newlines, a line being      *)
(* "User: <content>" for a user message and "Assistant: <content>" for an  *)
(* assistant message.                                                      *)
(***************************************************************************)
\* The transcript of well-formed entries, piece by piece: the k-th line is
\* pieces 4k-3 .. 4k-1, and piece 4k is the newline between two lines.
Transcript(items) ==
    [j \in 1..(4 * Len(items) - 1) |->
        LET msg == items[(j + 3) \div 4]
        IN  CASE j % 4 = 1 -> (CASE msg.role[1] = "user" -> "User"
                                 [] msg.role[1] = "assistant" -> "Assistant")
              [] j % 4 = 2 -> ": "
              [] j % 4 = 3 -> msg.content[1]
              [] j % 4 = 0 -> "\n"]

\* The last step was query handing the history h and the query q to the chain.
QuerySent(h, q) ==
    /\ resp.op = "query" /\ resp.status = 0
    /\ io.chat_history = <<h>> /\ io.query = <<q>>

C13_EffectiveQuery ==
    \A h \in Histories, q \in Queries :
        QuerySent(h, q) =>
            IF h.items = <<>> THEN sent = q
            ELSE sent = <<"Previous conversation:\n">> \o Transcript(h.items)
                            \o <<"\n\nCurrent question: ">> \o q

\* As the specification words it: the transcript, then the query.
C13_AsWritten ==
    \A h \in Histories, q \in Queries :
        QuerySent(h, q) =>
            IF h.items = <<>> THEN sent = q
            ELSE sent = Transcript(h.items) \o q

C13_Witness ==
    \E h \in Histories, q \in Queries :
        QuerySent(h, q) /\ Len(h.items) > 1 /\ Len(sent) > Len(q)

(***************************************************************************)
(* C14.  When generation returns, the query succeeds: with the answer of   *)
(* the result when it has one, and with the text "No answer found." when   *)
(* it has none.                                                            *)
(***************************************************************************)
\* The last step was query receiving result from chain.ainvoke.
Generated(result) == resp.op = "query" /\ io.result = <<result>>

C14_AnswerOrDefault ==
    \A result \in AinvokeResults :
        (Generated(result) /\ ~result.raised)
            => /\ resp.status = 200
               /\ result.has_answer => resp.response = result.answer
               /\ ~result.has_answer => resp.response = <<"No answer found.">>

C14_Witness ==
    \E result \in AinvokeResults :
        /\ Generated(result) /\ ~result.raised /\ ~result.has_answer
        /\ resp.response = <<"No answer found.">>

(***************************************************************************)
(* C15.  A step of an index or a remove request for one id leaves every    *)
(* other id as it was: present or absent as before, with the same record.  *)
(***************************************************************************)
SameEntry(b) ==
    /\ b \in DOMAIN vectorstore_cache <=> b \in DOMAIN vectorstore_cache'
    /\ b \in DOMAIN vectorstore_cache => vectorstore_cache'[b] = vectorstore_cache[b]

C15_OtherIdsUntouched ==
    [][resp'.op \in {"index", "delete"}
          => \A b \in FileIds \ {resp'.file_id} : SameEntry(b)]_vars

\* An id has just been indexed, or removed, while another id is present.
C15_Witness ==
    /\ \/ IndexResponded /\ resp.status = 200 /\ ~resp.already_indexed
       \/ resp.op = "delete" /\ resp.status = 200
    /\ \E b \in FileIds \ {resp.file_id} : Present(b)

(***************************************************************************)
(* C16.  Work on a provider does not block the other requests: while a     *)
(* request is in text extraction or in the index build, or is suspended    *)
(* in retrieval and generation, the handler of every other in-flight       *)
(* request can take its next step.                                         *)
(***************************************************************************)
\* The next step of the suspended handler r.
Continue(r) ==
    \/ \E u \in Uploads, w \in BOOLEAN : IndexResume(r, u, w)
    \/ \E a \in AinvokeResults : QueryResume(r, a)

\* A request other than r waits on a provider.
OtherWaitsOnProvider(r) ==
    \/ running # <<>>
    \/ \E w \in BagToSet(inflight (-) SetToBag({r})) : w.kind = "query"

C16_ProvidersDoNotBlock ==
    \A r \in BagToSet(inflight) : OtherWaitsOnProvider(r) => ENABLED Continue(r)

(***************************************************************************)
(* C17.  An index request that finds its id absent (never indexed, or      *)
(* removed, or cleared) and extracts non-empty text answers with           *)
(* already_indexed false, and the record of the id then holds the text of  *)
(* this upload, the file name of this request and the length of this text. *)
(***************************************************************************)
C17_ReindexStoresNew ==
    [][(/\ resp'.op = "index" /\ resp'.status \notin {0, 401}
        /\ Extracted' /\ ExtractsText(content')
        /\ resp'.file_id \notin DOMAIN vectorstore_cache)
          => LET id == resp'.file_id
                 text == extract_text_from_pdf(content'.pages)
             IN  /\ running # <<>>
                 /\ content' = running[1].upload
                 /\ resp'.status = 200
                 /\ ~resp'.already_indexed
                 /\ id \in DOMAIN vectorstore_cache'
                 /\ vectorstore_cache'[id] =
                        [text |-> text, file_name |-> running[1].file_name,
                         text_length |-> Len(text)]
                 /\ resp'.file_name = running[1].file_name
                 /\ resp'.text_length = Len(text)]_vars

\* The id has just been indexed anew, and a query still in flight holds the
\* index of another text for it: the id was indexed, removed and indexed again.
C17_Witness ==
    /\ IndexResponded /\ resp.status = 200 /\ ~resp.already_indexed
    /\ Present(resp.file_id)
    /\ \E w \in BagToSet(inflight) :
          /\ w.kind = "query" /\ w.file_id = resp.file_id
          /\ w.chain # <<"faiss">> \o vectorstore_cache[resp.file_id].text

(***************************************************************************)
(* C18.  A query that suspends holds the index of the text stored for its  *)
(* id when it checked the id; a remove or a clear changes no in-flight     *)
(* request; the query changes no cache entry; and when generation returns  *)
(* the query answers 200, whether or not its id is still present: it fails *)
(* only when the provider raised, and never with 404.                      *)
(***************************************************************************)
C18_QueryKeepsItsRecord ==
    [][/\ (resp'.op = "query" /\ resp'.detail = "suspended")
            => /\ resp'.file_id \in DOMAIN vectorstore_cache
               /\ BagIn([kind |-> "query", file_id |-> resp'.file_id, file_name |-> "",
                         chain |-> <<"faiss">> \o vectorstore_cache[resp'.file_id].text],
                        inflight')
       /\ resp'.op \in {"delete", "clear"} => inflight' = inflight
       /\ resp'.op = "query" => vectorstore_cache' = vectorstore_cache
       /\ (resp'.op = "query" /\ io'.result # <<>>)
            => /\ resp'.status \in {200, 500}
               /\ resp'.status = 500 <=> io'.result[1].raised]_vars

\* A query answers after its id was removed.
C18_Witness ==
    /\ resp.op = "query" /\ io.result # <<>> /\ resp.status = 200
    /\ ~Present(resp.file_id)

(***************************************************************************)
(* C19.  When an index request has answered, its temporary file is gone.   *)
(***************************************************************************)
C19_TempFileDeleted == IndexResponded => ~io.tmp_exists

(***************************************************************************)
(* C20.  A request to a protected operation with a wrong API key is        *)
(* answered 401 before the handler runs: the response carries no data of   *)
(* the cache, no provider is called, and the cache and the in-flight       *)
(* requests are as before.  health and root answer 200 without any key.    *)
(***************************************************************************)
WrongKey == io.key # <<>> /\ io.key[1] # AGENT_API_KEY

C20_WrongKeyIs401 ==
    [][/\ WrongKey'
            => /\ resp'.op \in ProtectedOps
               /\ resp' = [NoResp EXCEPT !.op = resp'.op, !.status = 401,
                                         !.detail = "Invalid API key"]
               /\ calls' = {}
               /\ sent' = <<>>
               /\ UNCHANGED <<vectorstore_cache, inflight, running>>
       /\ resp'.op \in {"health", "root"} => (resp'.status = 200 /\ io'.key = <<>>)
       /\ (resp'.op \in ProtectedOps /\ resp'.status # 401 /\ io'.key # <<>>)
            => io'.key[1] = AGENT_API_KEY]_vars

\* A wrong key was refused while the cache held a record.
C20_Witness == WrongKey /\ resp.status = 401 /\ vectorstore_cache # EmptyCache


=============================================================================
